---- MODULE Spec2Model ----
(***************************************************************************)
(* A model of gmaik, a terminal front-end to the notmuch mail index:       *)
(*   _find-mails.py  the result list with infinite scroll and "/" search   *)
(*   gm-find.py      the older result list (whole result set, no prompt)   *)
(*   _view-mails.py  the message viewer: MIME walk, HTML reduction, pager  *)
(* One behaviour runs one of the programs (prog).  The terminal height,    *)
(* the mail index and the health of the notmuch tool are the environment.  *)
(***************************************************************************)
EXTENDS Integers, Sequences, FiniteSets, TLC

VARIABLES
    prog,           \* which script runs: "find", "gm" or "view"; or which function of
                    \* _view-mails.py: "extract", "reduce", "reflow" or "parser"
    pc,             \* where the script is
    termY,          \* environment: rows of the terminal when last read (getmaxyx)
    idxN,           \* environment: threads the index held when last queried
    idxFuture,      \* environment: how many of the newest are dated > now + 1 day
    query,          \* _find-mails.py main: query
    results,        \* main: results, [isStr, rows]: a list of rows or str(e)
    selected_idx,   \* main: selected_idx
    scroll_offset,  \* main: scroll_offset
    current_limit,  \* _find-mails.py main: current_limit
    fully_loaded,   \* _find-mails.py main: fully_loaded
    max_y,          \* main / render_message: max_y as last read
    io,             \* what the last step painted and asked of notmuch, in order,
                    \* "failed" after a call that failed
    fetchedHere,    \* a re-query was issued since selected_idx last grew
    top,            \* render_message: top
    total_lines,    \* render_message: total_lines
    attachments,    \* render_message: attachments (the manifest)
    saved,          \* outcome of each save attempt of the last "s", in order
    msg,            \* collect_body_and_attachments: parts, the body of the message
    fetchOk,        \* environment: part ids whose raw fetch succeeds
    extracted,      \* what collect_body_and_attachments returned
    argv,           \* sys.argv[1:], the arguments of the script
    exit_code,      \* the exit status of the process, NotExited while it runs
    full_html,      \* collect_body_and_attachments: full_html, the markup to reduce
    reduced,        \* what clean_html_to_text returned, or that it raised
    raw_body,       \* render_message: raw_body, the text to reflow
    wrap_width,     \* render_message: wrap_width
    body_lines,     \* render_message: body_lines, what reflow_text returned
    parser,         \* a LayoutHTMLParser while html.parser calls its handlers
    tokens          \* the handler calls made so far, in order

listVars == <<query, results, selected_idx, scroll_offset, current_limit,
              fully_loaded, fetchedHere>>
envVars == <<idxN, idxFuture>>
pagerVars == <<top, total_lines, attachments, saved>>
extractVars == <<msg, fetchOk, extracted>>
reduceVars == <<full_html, reduced>>
reflowVars == <<raw_body, wrap_width, body_lines>>
parserVars == <<parser, tokens>>
textVars == <<reduceVars, reflowVars, parserVars>>
vars == <<prog, pc, termY, max_y, io, listVars, envVars, pagerVars, extractVars,
          argv, exit_code, textVars>>

-----------------------------------------------------------------------------
(* Bounds of the model. *)

MinY == 3          \* smallest terminal: one list row in _find-mails.py
MaxY == 4          \* largest terminal
SmallIndex == 3    \* an index smaller than the near-end margin
MidIndex == 20     \* an index between the first limit and the first fetch
MaxIndex == 34     \* an index larger than the first fetch
MaxFuture == 1     \* future-dated threads in the index
MaxErrLen == 2     \* length of an error string
MaxLimit == 24     \* current_limit is not grown past this

(* Constants of the program. *)

FetchSurplus == 20     \* run_search: fetch_limit = limit + 20
DefaultWindow == 10    \* main: current_limit = max_y + 10
NearEnd == 5           \* main: selected_idx >= total - 5
ListChrome == 2        \* _find-mails.py: list_height = max_y - 2
GmChrome == 3          \* gm-find.py: list_height = max_y - 3

Heights == MinY..MaxY
IndexSizes == {0, SmallIndex, MidIndex, MaxIndex}
Queries == {"inbox", "typed"}   \* DEFAULT_QUERY and a text typed at the prompt

NotExited == -1     \* exit_code of a process that runs
Traceback == 1      \* exit status of Python after an exception no one caught

Min(a, b) == IF a < b THEN a ELSE b
Max(a, b) == IF a > b THEN a ELSE b

-----------------------------------------------------------------------------
(* notmuch search, as run_search and load_search_results see it.  The index *)
(* holds threads 1..n newest first; a thread is <<query, position>>.  The   *)
(* future-dated threads are the newest ones.  What notmuch answers to one   *)
(* call is a = [ok, n, errLen]: whether it succeeds, the number of threads  *)
(* that match, and the length of the error text when it does not.           *)

ErrChar == <<0, 0>>

ListOf(rows) == [isStr |-> FALSE, rows |-> rows]
StrOf(len) == [isStr |-> TRUE, rows |-> [i \in 1..len |-> ErrChar]]

NotmuchSearch(q, n, k, limit) ==
    [p \in 1..Min(n, limit) |-> [thread |-> <<q, p>>, future |-> p <= k]]

IsFutureItem(item) == item.future
IsNormalItem(item) == ~item.future

RowsOf(items) == [i \in 1..Len(items) |-> items[i].thread]

\* a run_search that asks notmuch for one row less than the limit
SearchRowsBelowLimit(q, n, k, limit) ==
    LET data == NotmuchSearch(q, n, k, limit - 1)
    IN  RowsOf(SelectSeq(data, IsNormalItem)) \o RowsOf(SelectSeq(data, IsFutureItem))

\* run_search on success: normal_results + future_results of the first limit + 20
SearchRows(q, n, k, limit) ==
    LET data == NotmuchSearch(q, n, k, limit + FetchSurplus)
    IN  RowsOf(SelectSeq(data, IsNormalItem)) \o RowsOf(SelectSeq(data, IsFutureItem))

\* run_search: the list, or str(e) when notmuch fails
run_search(q, limit, a) ==
    IF a.ok THEN ListOf(SearchRows(q, a.n, idxFuture, limit))
    ELSE StrOf(a.errLen)

\* load_search_results on success: every thread, in index order
load_search_results(q, a) ==
    ListOf(RowsOf([p \in 1..a.n |-> [thread |-> <<q, p>>, future |-> p <= idxFuture]]))

Total(res) == Len(res.rows)

\* Python's results[idx]: valid for -len <= idx < len
PyIndexOk(idx, len) == idx >= 0 - len /\ idx < len

\* draw_list raises TypeError when it formats a visible "row" of a str
DrawRaises(res, scroll, height) ==
    res.isStr /\ height >= 1 /\ scroll < Total(res)

Answer(n) == [ok |-> TRUE, n |-> n, errLen |-> 0]
Failure(len) == [ok |-> FALSE, n |-> idxN, errLen |-> len]

\* what an environment that changes and fails may answer
Answers == {Answer(n) : n \in IndexSizes} \cup {Failure(len) : len \in 1..MaxErrLen}

-----------------------------------------------------------------------------
(* The key handlers both result lists share (_find-mails.py 234-248,        *)
(* gm-find.py 128-152): the new selected_idx and scroll_offset.             *)

NavKeys == {"DOWN", "UP", "NPAGE", "PPAGE", "HOME", "END"}

\* keys that keep the selection out of the last rows: Down and End stop
\* above the near-end margin
NavSelectedShy(key, total, height, sel) ==
    CASE key = "DOWN"  -> IF sel < total - NearEnd - 1 THEN sel + 1 ELSE sel
      [] key = "UP"    -> IF sel > 0 THEN sel - 1 ELSE sel
      [] key = "NPAGE" -> Min(total - 1, sel + height)
      [] key = "PPAGE" -> Max(0, sel - height)
      [] key = "HOME"  -> 0
      [] key = "END"   -> Max(0, total - NearEnd - 1)
      [] OTHER         -> sel

NavSelected(key, total, height, sel) ==
    CASE key = "DOWN"  -> IF sel < total - 1 THEN sel + 1 ELSE sel
      [] key = "UP"    -> IF sel > 0 THEN sel - 1 ELSE sel
      [] key = "NPAGE" -> Min(total - 1, sel + height)
      [] key = "PPAGE" -> Max(0, sel - height)
      [] key = "HOME"  -> 0
      [] key = "END"   -> total - 1
      [] OTHER         -> sel

NavScroll(key, total, height, scroll) ==
    CASE key = "NPAGE" -> Max(0, Min(total - height, scroll + height))
      [] key = "PPAGE" -> Max(0, scroll - height)
      [] OTHER         -> scroll

\* _find-mails.py 257-259: selected_idx clamped into the rows
ClampSelected(total, sel) ==
    IF total > 0
    THEN LET s1 == IF sel >= total THEN total - 1 ELSE sel
         IN  IF s1 < 0 THEN 0 ELSE s1
    ELSE sel

\* a FollowSelection that lets the selection slip one row below the window
FollowSelectionLate(height, sel, scroll) ==
    IF sel < scroll THEN sel
    ELSE IF sel > scroll + height THEN sel - height + 1
    ELSE scroll

\* the scroll that keeps the selection visible (_find-mails.py 260-263,
\* gm-find.py 114-117)
FollowSelection(height, sel, scroll) ==
    IF sel < scroll THEN sel
    ELSE IF sel >= scroll + height THEN sel - height + 1
    ELSE scroll

\* _find-mails.py 257-263
FixScroll(total, height, sel, scroll) ==
    IF total > 0 THEN FollowSelection(height, ClampSelected(total, sel), scroll)
    ELSE scroll

\* a trigger that forgets fully_loaded
NearEndIgnoringLoaded(loaded, total, sel) == sel >= total - NearEnd

\* _find-mails.py 205: the infinite-scroll trigger
NearEndOfLoaded(loaded, total, sel) == ~loaded /\ sel >= total - NearEnd

\* _find-mails.py 249: Enter is bound only when results is truthy
OpenBound(res) == Total(res) > 0

-----------------------------------------------------------------------------
(* _find-mails.py main *)

Running == pc \in {"top", "key", "viewing"}

\* 184-198: the initial query
FindStart(y, a) ==
    /\ prog = "find" /\ pc = "init"
    /\ termY' = y /\ idxN' = a.n
    /\ max_y' = y
    /\ current_limit' = max_y' + DefaultWindow
    /\ LET res == run_search(query, current_limit', a)
       IN  /\ results' = res
           /\ IF res.isStr
              THEN /\ pc' = "errwait"
                   /\ io' = <<"loading", "query", "failed", "error">>
                   /\ UNCHANGED fully_loaded
              ELSE /\ pc' = "top"
                   /\ io' = <<"loading", "query">>
                   /\ fully_loaded' = (Total(res) < current_limit')
    /\ UNCHANGED <<prog, argv, exit_code, textVars, query, selected_idx, scroll_offset, fetchedHere,
                   idxFuture, pagerVars, extractVars>>

\* 193-194: any key ends the program after the error screen
FindAck ==
    /\ prog = "find" /\ pc = "errwait"
    /\ pc' = "exited"
    /\ io' = <<>>
    /\ exit_code' = 0
    /\ UNCHANGED <<prog, argv, textVars, termY, max_y, listVars, envVars, pagerVars, extractVars>>

\* 201-216, no fetch due: one repaint
FindLoopTop(y) ==
    /\ prog = "find" /\ pc = "top"
    /\ ~NearEndOfLoaded(fully_loaded, Total(results), selected_idx)
    /\ termY' = y
    /\ max_y' = y
    /\ IF DrawRaises(results, scroll_offset, max_y' - ListChrome)
       THEN pc' = "crashed" /\ io' = <<>>
       ELSE pc' = "key" /\ io' = <<"list">>
    /\ exit_code' = IF pc' = "crashed" THEN Traceback ELSE exit_code
    /\ UNCHANGED <<prog, argv, textVars, listVars, envVars, pagerVars, extractVars>>

\* 201-214, fetch due: "Fetching" frame, re-query with a grown limit, repaint
FindLoopFetch(y, a) ==
    /\ prog = "find" /\ pc = "top"
    /\ NearEndOfLoaded(fully_loaded, Total(results), selected_idx)
    /\ current_limit + y <= MaxLimit
    /\ termY' = y
    /\ max_y' = y
    /\ IF DrawRaises(results, scroll_offset, max_y' - ListChrome)
       THEN /\ pc' = "crashed" /\ io' = <<>>
            /\ UNCHANGED <<results, current_limit, fully_loaded, fetchedHere, idxN>>
       ELSE /\ current_limit' = current_limit + max_y'
            /\ fetchedHere' = TRUE
            /\ idxN' = a.n
            /\ LET new_results == run_search(query, current_limit', a)
               IN  IF new_results.isStr
                   THEN UNCHANGED <<results, fully_loaded>>
                   ELSE /\ results' = new_results
                        /\ fully_loaded' = (Total(new_results) < current_limit')
            /\ LET asked == IF a.ok THEN <<"fetching", "query">>
                            ELSE <<"fetching", "query", "failed">>
               IN  IF DrawRaises(results', scroll_offset, max_y' - ListChrome)
                   THEN pc' = "crashed" /\ io' = asked
                   ELSE pc' = "key" /\ io' = Append(asked, "list")
    /\ exit_code' = IF pc' = "crashed" THEN Traceback ELSE exit_code
    /\ UNCHANGED <<prog, argv, textVars, query, selected_idx, scroll_offset, idxFuture,
                   pagerVars, extractVars>>

\* 220-221
FindQuit ==
    /\ prog = "find" /\ pc = "key"
    /\ pc' = "exited"
    /\ io' = <<>>
    /\ exit_code' = 0
    /\ UNCHANGED <<prog, argv, textVars, termY, max_y, listVars, envVars, pagerVars, extractVars>>

\* 234-248 then 257-263: a navigation key, or a key bound to nothing
FindNav(key) ==
    /\ prog = "find" /\ pc = "key"
    /\ LET total  == Total(results)
           height == max_y - ListChrome
           sel    == NavSelected(key, total, height, selected_idx)
           scroll == NavScroll(key, total, height, scroll_offset)
       IN  /\ selected_idx' = ClampSelected(total, sel)
           /\ scroll_offset' = FixScroll(total, height, sel, scroll)
    /\ fetchedHere' = IF selected_idx' > selected_idx THEN FALSE ELSE fetchedHere
    /\ pc' = "top"
    /\ io' = <<>>
    /\ UNCHANGED <<prog, argv, exit_code, textVars, termY, max_y, query, results, current_limit, fully_loaded,
                   envVars, pagerVars, extractVars>>

\* 222-223 then 257-263: "/" and a prompt that returns no text
FindSearchNone ==
    /\ prog = "find" /\ pc = "key"
    /\ LET total  == Total(results)
           height == max_y - ListChrome
       IN  /\ selected_idx' = ClampSelected(total, selected_idx)
           /\ scroll_offset' = FixScroll(total, height, selected_idx, scroll_offset)
    /\ pc' = "top"
    /\ io' = <<>>
    /\ UNCHANGED <<prog, argv, exit_code, textVars, termY, max_y, query, results, current_limit, fully_loaded,
                   fetchedHere, envVars, pagerVars, extractVars>>

\* 222-233 then 257-263: "/" and the text the prompt returned
FindSearch(new_query, a) ==
    /\ prog = "find" /\ pc = "key"
    /\ query' = new_query
    /\ current_limit' = max_y + DefaultWindow
    /\ fetchedHere' = FALSE
    /\ idxN' = a.n
    /\ io' = IF a.ok THEN <<"loading", "query">> ELSE <<"loading", "query", "failed">>
    /\ LET total  == Total(results)
           height == max_y - ListChrome
           res    == run_search(new_query, current_limit', a)
           sel    == IF res.isStr THEN selected_idx ELSE 0
           scroll == IF res.isStr THEN scroll_offset ELSE 0
       IN  /\ results' = res
           /\ fully_loaded' = IF res.isStr THEN FALSE ELSE Total(res) < current_limit'
           /\ selected_idx' = ClampSelected(total, sel)
           /\ scroll_offset' = FixScroll(total, height, sel, scroll)
    /\ pc' = "top"
    /\ UNCHANGED <<prog, argv, exit_code, textVars, termY, max_y, idxFuture, pagerVars, extractVars>>

\* 249-255: Enter hands results[selected_idx]['id'] to the viewer
FindOpen ==
    /\ prog = "find" /\ pc = "key"
    /\ pc' = IF ~OpenBound(results) THEN "top"
             ELSE IF ~results.isStr /\ PyIndexOk(selected_idx, Total(results))
             THEN "viewing" ELSE "crashed"
    /\ io' = IF pc' = "viewing" THEN <<"viewer">> ELSE <<>>
    /\ exit_code' = IF pc' = "crashed" THEN Traceback ELSE exit_code
    /\ UNCHANGED <<prog, argv, textVars, termY, max_y, listVars, envVars, pagerVars, extractVars>>

\* 254-263: the viewer process ends, the loop goes on
FindViewerReturn ==
    /\ prog = "find" /\ pc = "viewing"
    /\ LET total  == Total(results)
           height == max_y - ListChrome
       IN  /\ selected_idx' = ClampSelected(total, selected_idx)
           /\ scroll_offset' = FixScroll(total, height, selected_idx, scroll_offset)
    /\ pc' = "top"
    /\ io' = <<>>
    /\ UNCHANGED <<prog, argv, exit_code, textVars, termY, max_y, query, results, current_limit, fully_loaded,
                   fetchedHere, envVars, pagerVars, extractVars>>

-----------------------------------------------------------------------------
(* gm-find.py main *)

\* 96-105: the one query; sys.exit(1) on failure, a notice on no results
GmStart(a) ==
    /\ prog = "gm" /\ pc = "init"
    /\ idxN' = a.n
    /\ IF ~a.ok
       THEN /\ pc' = "exited"
            /\ io' = <<"query", "failed", "error">>
            /\ UNCHANGED results
       ELSE /\ results' = load_search_results(query, a)
            /\ pc' = IF Total(results') = 0 THEN "errwait" ELSE "top"
            /\ io' = IF Total(results') = 0 THEN <<"query", "noresults">> ELSE <<"query">>
    /\ exit_code' = IF a.ok THEN exit_code ELSE 1
    /\ UNCHANGED <<prog, argv, textVars, termY, max_y, query, selected_idx, scroll_offset, current_limit,
                   fully_loaded, fetchedHere, idxFuture, pagerVars, extractVars>>

\* 101-102: any key ends the program after "No results"
GmAck ==
    /\ prog = "gm" /\ pc = "errwait"
    /\ pc' = "exited"
    /\ io' = <<>>
    /\ exit_code' = 0
    /\ UNCHANGED <<prog, argv, textVars, termY, max_y, listVars, envVars, pagerVars, extractVars>>

\* 110-119: the scroll follows the selection, then the repaint
GmLoopTop(y) ==
    /\ prog = "gm" /\ pc = "top"
    /\ termY' = y
    /\ max_y' = y
    /\ scroll_offset' = FollowSelection(max_y' - GmChrome, selected_idx, scroll_offset)
    /\ pc' = "key"
    /\ io' = <<"list">>
    /\ UNCHANGED <<prog, argv, exit_code, textVars, query, results, selected_idx, current_limit, fully_loaded,
                   fetchedHere, envVars, pagerVars, extractVars>>

\* 124-125
GmQuit ==
    /\ prog = "gm" /\ pc = "key"
    /\ pc' = "exited"
    /\ io' = <<>>
    /\ exit_code' = 0
    /\ UNCHANGED <<prog, argv, textVars, termY, max_y, listVars, envVars, pagerVars, extractVars>>

\* 128-152
GmNav(key) ==
    /\ prog = "gm" /\ pc = "key"
    /\ selected_idx' = NavSelected(key, Total(results), max_y - GmChrome, selected_idx)
    /\ scroll_offset' = NavScroll(key, Total(results), max_y - GmChrome, scroll_offset)
    /\ pc' = "top"
    /\ io' = <<>>
    /\ UNCHANGED <<prog, argv, exit_code, textVars, termY, max_y, query, results, current_limit, fully_loaded,
                   fetchedHere, envVars, pagerVars, extractVars>>

\* 155-163
GmOpen ==
    /\ prog = "gm" /\ pc = "key"
    /\ pc' = IF PyIndexOk(selected_idx, Total(results)) THEN "viewing" ELSE "crashed"
    /\ io' = IF pc' = "viewing" THEN <<"viewer">> ELSE <<>>
    /\ exit_code' = IF pc' = "crashed" THEN Traceback ELSE exit_code
    /\ UNCHANGED <<prog, argv, textVars, termY, max_y, listVars, envVars, pagerVars, extractVars>>

\* 163-165
GmViewerReturn ==
    /\ prog = "gm" /\ pc = "viewing"
    /\ pc' = "top"
    /\ io' = <<>>
    /\ UNCHANGED <<prog, argv, exit_code, textVars, termY, max_y, listVars, envVars, pagerVars, extractVars>>

-----------------------------------------------------------------------------
(* _view-mails.py render_message: the pager.  The message arrives rendered: *)
(* total_lines counts the four header lines and the reflowed body, and      *)
(* attachments is the manifest of the walk.                                 *)

HeaderLines == 4     \* render_message 203-208: header_block
PagerChrome == 2     \* render_message 217: page_size = max_y - 2

MaxBody == 3         \* lines of a reflowed body
MaxAtt == 2          \* attachments of a message

\* 278, 282, 286: the last top that shows a full page
MaxTop(total, page_size) == Max(0, total - page_size)

PagerKeys == {"UP", "DOWN", "PPAGE", "NPAGE", "HOME", "END"}

\* a PagerTop whose KEY_DOWN is not clamped
PagerTopUnclamped(ch, total, page_size, t) ==
    CASE ch = "UP"    -> Max(0, t - 1)
      [] ch = "DOWN"  -> t + 1
      [] ch = "PPAGE" -> Max(0, t - page_size)
      [] ch = "NPAGE" -> Min(MaxTop(total, page_size), t + page_size)
      [] ch = "HOME"  -> 0
      [] ch = "END"   -> MaxTop(total, page_size)
      [] OTHER        -> t

\* 275-286
PagerTop(ch, total, page_size, t) ==
    CASE ch = "UP"    -> Max(0, t - 1)
      [] ch = "DOWN"  -> Min(MaxTop(total, page_size), t + 1)
      [] ch = "PPAGE" -> Max(0, t - page_size)
      [] ch = "NPAGE" -> Min(MaxTop(total, page_size), t + page_size)
      [] ch = "HOME"  -> 0
      [] ch = "END"   -> MaxTop(total, page_size)
      [] OTHER        -> t

\* 254-266: count of the attempts that did not raise
SavedCount(log) == Cardinality({i \in 1..Len(log) : log[i].ok})

\* what notmuch show gives main: a message, JSON without a message, or a
\* failure (the tool fails, or its output is not JSON)
Shown == {"message", "nomessage", "failed"}

\* main 288-301: sys.exit(1) without an argument; "Error: ..." is printed
\* and main returns when the message cannot be had
ViewMain(shown) ==
    /\ prog = "view" /\ pc = "main"
    /\ IF Len(argv) < 1
       THEN pc' = "exited" /\ exit_code' = 1 /\ io' = <<>>
       ELSE IF shown = "message"
       THEN pc' = "init" /\ exit_code' = exit_code /\ io' = <<"show">>
       ELSE pc' = "exited" /\ exit_code' = 0
            /\ io' = IF shown = "failed" THEN <<"show", "failed", "Error">>
                     ELSE <<"show", "Error">>
    /\ UNCHANGED <<prog, argv, textVars, termY, max_y, pagerVars, listVars, envVars, extractVars>>

\* 210-212
ViewStart ==
    /\ prog = "view" /\ pc = "init"
    /\ top' = 0
    /\ pc' = "top"
    /\ io' = <<>>
    /\ UNCHANGED <<prog, argv, exit_code, textVars, termY, max_y, total_lines, attachments, saved,
                   listVars, envVars, extractVars>>

\* 215-244: the repaint
ViewLoopTop(y) ==
    /\ prog = "view" /\ pc = "top"
    /\ termY' = y
    /\ max_y' = y
    /\ pc' = "key"
    /\ io' = <<"page">>
    /\ UNCHANGED <<prog, argv, exit_code, textVars, pagerVars, listVars, envVars, extractVars>>

\* 248-249
ViewQuit ==
    /\ prog = "view" /\ pc = "key"
    /\ pc' = "exited"
    /\ io' = <<>>
    /\ exit_code' = 0
    /\ UNCHANGED <<prog, argv, textVars, termY, max_y, pagerVars, listVars, envVars, extractVars>>

\* 254: count = 0, and no attempt made yet
NoneSaved == [count |-> 0, log |-> <<>>]

\* 256-264: one attachment; open or notmuch raising is passed over
SaveOne(att, ok, st) ==
    [count |-> IF ok THEN st.count + 1 ELSE st.count,
     log |-> Append(st.log, [id |-> att, ok |-> ok])]

\* a loop that the first failure ends
RECURSIVE SaveLoopUntilFailure(_, _, _, _)
SaveLoopUntilFailure(atts, oks, i, st) ==
    IF i > Len(atts) THEN st
    ELSE IF ~oks[i] THEN SaveOne(atts[i], oks[i], st)
    ELSE SaveLoopUntilFailure(atts, oks, i + 1, SaveOne(atts[i], oks[i], st))

\* 255-264: the loop over the attachments from the i-th on
RECURSIVE SaveLoop(_, _, _, _)
SaveLoop(atts, oks, i, st) ==
    IF i > Len(atts) THEN st
    ELSE SaveLoop(atts, oks, i + 1, SaveOne(atts[i], oks[i], st))

\* 251-273: "s"; oks[i] tells whether writing attachment i succeeds
ViewSave(oks) ==
    /\ prog = "view" /\ pc = "key"
    /\ LET st == SaveLoop(attachments, oks, 1, NoneSaved)
       IN  /\ saved' = st.log
           /\ io' = IF Len(attachments) > 0 THEN <<"Saved", st.count>>
                    ELSE <<"No attachments.">>
    /\ pc' = "top"
    /\ UNCHANGED <<prog, argv, exit_code, textVars, termY, max_y, top, total_lines, attachments,
                   listVars, envVars, extractVars>>

\* 275-286: a scroll key, or a key bound to nothing
ViewScroll(ch) ==
    /\ prog = "view" /\ pc = "key"
    /\ top' = PagerTop(ch, total_lines, max_y - PagerChrome, top)
    /\ pc' = "top"
    /\ io' = <<>>
    /\ UNCHANGED <<prog, argv, exit_code, textVars, termY, max_y, total_lines, attachments, saved,
                   listVars, envVars, extractVars>>

-----------------------------------------------------------------------------
(* _view-mails.py, HTML processing.  A text is a sequence of characters,    *)
(* each a one-character string; the four invisible characters handle_data   *)
(* treats are named by their code points.  html.parser is modelled for the  *)
(* markup of the payloads below: tags without quoted attribute values, the  *)
(* references &lt; &gt; &amp; &nbsp;, comments, declarations and processing *)
(* instructions, no numeric reference, and text runs shorter than the       *)
(* parser's look-back windows.  The parser is the one of Python 3.11.       *)

NBSP == "U+00A0"
ZWNJ == "U+200C"
ZWJ == "U+200D"
BOM == "U+FEFF"

Whitespace == {" ", "\n", "\t"}

UpperSeq ==
    <<"A", "B", "C", "D", "E", "F", "G", "H", "I", "J", "K", "L", "M",
     "N", "O", "P", "Q", "R", "S", "T", "U", "V", "W", "X", "Y", "Z">>
LowerSeq ==
    <<"a", "b", "c", "d", "e", "f", "g", "h", "i", "j", "k", "l", "m",
     "n", "o", "p", "q", "r", "s", "t", "u", "v", "w", "x", "y", "z">>
AsciiLetters == {UpperSeq[i] : i \in DOMAIN UpperSeq} \cup {LowerSeq[i] : i \in DOMAIN LowerSeq}
Digits == {"0", "1", "2", "3", "4", "5", "6", "7", "8", "9"}

LowerChar(c) ==
    IF \E i \in DOMAIN UpperSeq : UpperSeq[i] = c
    THEN LowerSeq[CHOOSE i \in DOMAIN UpperSeq : UpperSeq[i] = c]
    ELSE c

\* str.lower()
lower(s) == [i \in 1..Len(s) |-> LowerChar(s[i])]

\* the first position from i on that holds a character of cs, or 0
Find(s, cs, i) ==
    IF \E k \in i..Len(s) : s[k] \in cs
    THEN CHOOSE k \in i..Len(s) : s[k] \in cs /\ \A m \in i..(k - 1) : s[m] \notin cs
    ELSE 0

\* the first position from i on that holds no character of cs, or Len(s) + 1
Skip(s, cs, i) ==
    IF \E k \in i..Len(s) : s[k] \notin cs
    THEN CHOOSE k \in i..Len(s) : s[k] \notin cs /\ \A m \in i..(k - 1) : s[m] \in cs
    ELSE Len(s) + 1

RECURSIVE Concat(_)
Concat(ss) == IF ss = <<>> THEN <<>> ELSE Head(ss) \o Concat(Tail(ss))

\* str.strip()
strip(s) ==
    LET a == Skip(s, Whitespace, 1)
        b == IF a > Len(s) THEN a - 1
             ELSE CHOOSE k \in a..Len(s) :
                      s[k] \notin Whitespace /\ \A m \in (k + 1)..Len(s) : s[m] \in Whitespace
    IN SubSeq(s, a, b)

\* sep.join(ss)
RECURSIVE Join(_, _)
Join(ss, sep) ==
    IF ss = <<>> THEN <<>>
    ELSE IF Len(ss) = 1 THEN ss[1]
    ELSE ss[1] \o sep \o Join(Tail(ss), sep)

\* LayoutHTMLParser.__init__ 21-25
block_tags ==
    {<<"p">>, <<"d", "i", "v">>, <<"b", "r">>, <<"t", "r">>, <<"l", "i">>,
     <<"h", "1">>, <<"h", "2">>, <<"h", "3">>, <<"h", "4">>, <<"h", "5">>,
     <<"h", "6">>, <<"b", "l", "o", "c", "k", "q", "u", "o", "t", "e">>,
     <<"t", "i", "t", "l", "e">>, <<"t", "a", "b", "l", "e">>,
     <<"u", "l">>, <<"o", "l">>}
ignore_tags ==
    {<<"s", "t", "y", "l", "e">>, <<"s", "c", "r", "i", "p", "t">>,
     <<"h", "e", "a", "d">>, <<"m", "e", "t", "a">>,
     <<"l", "i", "n", "k">>}

\* html.parser: the elements whose content is read up to their end tag
CDATA_CONTENT_ELEMENTS == {<<"s", "c", "r", "i", "p", "t">>,
                            <<"s", "t", "y", "l", "e">>}

\* the named references of html.entities.html5 that the payloads use
html5 ==
    {<<<<"l", "t", ";">>, "<">>, <<<<"l", "t">>, "<">>, <<<<"g", "t", ";">>, ">">>, <<<<"g", "t">>, ">">>,
     <<<<"a", "m", "p", ";">>, "&">>, <<<<"a", "m", "p">>, "&">>,
     <<<<"n", "b", "s", "p", ";">>, NBSP>>, <<<<"n", "b", "s", "p">>, NBSP>>}

IsEntity(s) == \E e \in html5 : e[1] = s
EntityChar(s) == (CHOOSE e \in html5 : e[1] = s)[2]

\* html.unescape: one reference without its "&"; a known name, else the
\* longest known prefix of two characters or more, else the text as it is
replace_charref(s) ==
    IF IsEntity(s) THEN <<EntityChar(s)>>
    ELSE IF \E x \in 2..(Len(s) - 1) : IsEntity(SubSeq(s, 1, x))
    THEN LET x == CHOOSE x \in 2..(Len(s) - 1) :
                     /\ IsEntity(SubSeq(s, 1, x))
                     /\ \A y \in (x + 1)..(Len(s) - 1) : ~IsEntity(SubSeq(s, 1, y))
         IN <<EntityChar(SubSeq(s, 1, x))>> \o SubSeq(s, x + 1, Len(s))
    ELSE <<"&">> \o s

\* the characters that end the name of a reference
NameStop == {"\t", "\n", "\f", " ", "<", "&", "#", ";"}

\* html.unescape
RECURSIVE unescape(_)
unescape(t) ==
    IF t = <<>> THEN <<>>
    ELSE IF Head(t) # "&" THEN <<Head(t)>> \o unescape(Tail(t))
    ELSE LET r == Tail(t)
             stop == Find(r, NameStop, 1)
             nameLen == IF stop = 0 THEN Len(r) ELSE stop - 1
             refLen == IF nameLen < Len(r) /\ r[nameLen + 1] = ";" THEN nameLen + 1 ELSE nameLen
         IN IF nameLen = 0 THEN <<"&">> \o unescape(r)
            ELSE replace_charref(SubSeq(r, 1, refLen)) \o unescape(SubSeq(r, refLen + 1, Len(r)))

\* current_tag before any start tag, cdata_elem outside script and style
NoTag == <<>>

\* LayoutHTMLParser.__init__ 16-26
\* raised: an exception left feed
NewParser == [parts |-> <<>>, current_tag |-> NoTag, cdata_elem |-> NoTag, raised |-> FALSE]

\* 28-31
handle_starttag(p, tag) ==
    [p EXCEPT !.current_tag = tag,
              !.parts = IF tag \in block_tags THEN Append(@, <<"\n">>) ELSE @]

\* a handle_endtag that leaves the element: current_tag is forgotten
handle_endtag_leaving(p, tag) ==
    [p EXCEPT !.current_tag = NoTag,
              !.parts = IF tag \in block_tags THEN Append(@, <<"\n">>) ELSE @]

\* 33-35
handle_endtag(p, tag) ==
    [p EXCEPT !.parts = IF tag \in block_tags THEN Append(@, <<"\n">>) ELSE @]

\* 46: the invisible characters go, the non-breaking space becomes a space
StripInvisible(data) ==
    LET kept == SelectSeq(data, LAMBDA c : c \notin {ZWNJ, ZWJ, BOM})
    IN [i \in 1..Len(kept) |-> IF kept[i] = NBSP THEN " " ELSE kept[i]]

\* 49: " ".join(clean.split())
CollapseWhitespace(s) ==
    LET F[i \in 0..Len(s)] ==
            IF i = 0 THEN <<>>
            ELSE IF s[i] \in Whitespace THEN F[i - 1]
            ELSE IF i > 1 /\ s[i - 1] \in Whitespace /\ F[i - 1] # <<>>
                 THEN F[i - 1] \o <<" ", s[i]>>
            ELSE Append(F[i - 1], s[i])
    IN F[Len(s)]

\* 37-52
handle_data(p, data) ==
    IF p.current_tag \in ignore_tags THEN p
    ELSE LET clean == CollapseWhitespace(StripInvisible(data))
         IN IF clean # <<>> THEN [p EXCEPT !.parts = Append(@, clean)] ELSE p

\* 54-55
get_text(p) == Concat(p.parts)

\* html.parser, tagfind_tolerant: the name that starts at position i runs up
\* to white space, "/" or ">"
TagName(rawdata, i) ==
    LET stop == Find(rawdata, Whitespace \cup {"/", ">"}, i)
    IN lower(SubSeq(rawdata, i, (IF stop = 0 THEN Len(rawdata) + 1 ELSE stop) - 1))

\* html.parser, parse_starttag: "<" at i, the closing ">" at gt; "/>" ends a
\* start-and-end tag, a script or style start tag opens its raw content
parse_starttag(rawdata, i, gt, p) ==
    LET tag == TagName(rawdata, i + 1)
        started == handle_starttag(p, tag)
    IN IF rawdata[gt - 1] = "/" THEN handle_endtag(started, tag)
       ELSE IF tag \in CDATA_CONTENT_ELEMENTS THEN [started EXCEPT !.cdata_elem = tag]
       ELSE started

\* html.parser, endtagfind: the characters of an end tag's name
EndNameChars == AsciiLetters \cup Digits \cup {"-", ".", ":", "_"}

\* html.parser, parse_endtag: the name in "</ name >", else the tolerant name
\* right after "</", else none
EndTagName(rawdata, i, gt) ==
    LET k == Skip(rawdata, Whitespace, i + 2)
        m == Skip(rawdata, EndNameChars, k)
    IN IF k < gt /\ rawdata[k] \in AsciiLetters /\ Skip(rawdata, Whitespace, m) = gt
       THEN lower(SubSeq(rawdata, k, m - 1))
       ELSE IF rawdata[i + 2] \in AsciiLetters THEN TagName(rawdata, i + 2)
       ELSE NoTag

\* html.parser, parse_endtag: "</" at i, the next ">" at gt
parse_endtag(rawdata, i, gt, p) ==
    LET tag == EndTagName(rawdata, i, gt)
    IN IF tag = NoTag THEN p
       ELSE [handle_endtag(p, tag) EXCEPT !.cdata_elem = NoTag]

\* html.parser, set_cdata_mode: does "</ elem >", in any case, start at k
ClosesAt(rawdata, elem, k) ==
    LET a == Skip(rawdata, Whitespace, k + 2)
        b == a + Len(elem)
        c == Skip(rawdata, Whitespace, b)
    IN /\ k + 1 <= Len(rawdata) /\ rawdata[k] = "<" /\ rawdata[k + 1] = "/"
       /\ b - 1 <= Len(rawdata) /\ lower(SubSeq(rawdata, a, b - 1)) = elem
       /\ c <= Len(rawdata) /\ rawdata[c] = ">"

\* the next position goahead looks at: the next "<", or inside script and
\* style the next end tag of that element; 0 when there is none
NextMarkup(rawdata, i, p) ==
    IF p.cdata_elem = NoTag THEN Find(rawdata, {"<"}, i)
    ELSE IF \E k \in i..Len(rawdata) : ClosesAt(rawdata, p.cdata_elem, k)
    THEN CHOOSE k \in i..Len(rawdata) :
             /\ ClosesAt(rawdata, p.cdata_elem, k)
             /\ \A m \in i..(k - 1) : ~ClosesAt(rawdata, p.cdata_elem, m)
    ELSE 0

\* does lit start at position i of s
StartsWith(s, i, lit) ==
    i + Len(lit) - 1 <= Len(s) /\ SubSeq(s, i, i + Len(lit) - 1) = lit

\* what parsing a construct answers besides the position after it: -1 of the
\* source when the construct is not complete, and an exception
Incomplete == 0
Raises == -1

\* _markupbase: the position after "]" white space ">" at k, or after
\* "]" white space "]" white space ">" when twice holds; Incomplete if none
MatchClose(rawdata, k, twice) ==
    LET a == Skip(rawdata, Whitespace, k + 1)
        b == Skip(rawdata, Whitespace, a + 1)
    IN IF k > Len(rawdata) \/ rawdata[k] # "]" THEN Incomplete
       ELSE IF ~twice
            THEN IF a <= Len(rawdata) /\ rawdata[a] = ">" THEN a + 1 ELSE Incomplete
       ELSE IF a <= Len(rawdata) /\ rawdata[a] = "]" /\ b <= Len(rawdata) /\ rawdata[b] = ">"
            THEN b + 1
       ELSE Incomplete

\* _markedsectionclose.search and _msmarkedsectionclose.search from i on
SearchClose(rawdata, i, twice) ==
    IF \E k \in i..Len(rawdata) : MatchClose(rawdata, k, twice) # Incomplete
    THEN MatchClose(rawdata,
                    CHOOSE k \in i..Len(rawdata) :
                        /\ MatchClose(rawdata, k, twice) # Incomplete
                        /\ \A m \in i..(k - 1) : MatchClose(rawdata, m, twice) = Incomplete,
                    twice)
    ELSE Incomplete

\* _markupbase, _declname: the characters of a name after its first letter
DeclNameChars == AsciiLetters \cup Digits \cup {"-", "_", "."}

StandardSections ==
    {<<"t", "e", "m", "p">>, <<"c", "d", "a", "t", "a">>, <<"i", "g", "n", "o", "r", "e">>,
     <<"i", "n", "c", "l", "u", "d", "e">>, <<"r", "c", "d", "a", "t", "a">>}
OfficeSections == {<<"i", "f">>, <<"e", "l", "s", "e">>, <<"e", "n", "d", "i", "f">>}

\* _markupbase, parse_marked_section with _scan_name: "<![" at i; a keyword
\* that is none of the known ones, or no name at all, raises AssertionError
parse_marked_section(rawdata, i) ==
    LET n == Len(rawdata)
        e == Skip(rawdata, DeclNameChars, i + 4)
        f == Skip(rawdata, Whitespace, e)
        sectName == lower(SubSeq(rawdata, i + 3, e - 1))
    IN IF i + 3 > n THEN Incomplete
       ELSE IF rawdata[i + 3] \notin AsciiLetters THEN Raises
       ELSE IF f > n THEN Incomplete
       ELSE IF sectName \in StandardSections THEN SearchClose(rawdata, i + 3, TRUE)
       ELSE IF sectName \in OfficeSections THEN SearchClose(rawdata, i + 3, FALSE)
       ELSE Raises

\* _markupbase, parse_comment: "<!--" at i, closed by "--" white space ">"
parse_comment(rawdata, i) ==
    LET Closes(k) ==
            /\ StartsWith(rawdata, k, <<"-", "-">>)
            /\ Skip(rawdata, Whitespace, k + 2) <= Len(rawdata)
            /\ rawdata[Skip(rawdata, Whitespace, k + 2)] = ">"
    IN IF \E k \in (i + 4)..Len(rawdata) : Closes(k)
       THEN 1 + Skip(rawdata, Whitespace,
                     2 + CHOOSE k \in (i + 4)..Len(rawdata) :
                             Closes(k) /\ \A m \in (i + 4)..(k - 1) : ~Closes(m))
       ELSE Incomplete

\* the position after the next ">" from i on
AfterGt(rawdata, i) ==
    IF Find(rawdata, {">"}, i) = 0 THEN Incomplete ELSE Find(rawdata, {">"}, i) + 1

\* html.parser, parse_pi and parse_html_declaration: "<?" or "<!" at i
parse_declaration(rawdata, i) ==
    IF StartsWith(rawdata, i, <<"<", "!", "-", "-">>) THEN parse_comment(rawdata, i)
    ELSE IF StartsWith(rawdata, i, <<"<", "?">>) THEN AfterGt(rawdata, i + 2)
    ELSE IF StartsWith(rawdata, i, <<"<", "!", "[">>) THEN parse_marked_section(rawdata, i)
    ELSE IF i + 8 <= Len(rawdata)
            /\ lower(SubSeq(rawdata, i, i + 8)) = <<"<", "!", "d", "o", "c", "t", "y", "p", "e">>
         THEN AfterGt(rawdata, i + 9)
    ELSE AfterGt(rawdata, i + 2)

\* html.parser, goahead(end = False): a trailing text that may hold a cut
\* reference (an "&" with no white space or ";" after it), and an unclosed
\* script or style, are kept back for a feed that never comes
HeldBack(rawdata, i, p) ==
    IF p.cdata_elem # NoTag THEN TRUE
    ELSE /\ \E a \in i..Len(rawdata) : rawdata[a] = "&"
         /\ LET amppos == CHOOSE a \in i..Len(rawdata) :
                              /\ rawdata[a] = "&"
                              /\ \A b \in (a + 1)..Len(rawdata) : rawdata[b] # "&"
            IN Find(rawdata, Whitespace \cup {";"}, amppos) = 0

\* html.parser, goahead(end = False) from position i
RECURSIVE goahead(_, _, _)
goahead(rawdata, i, p) ==
    LET n == Len(rawdata)
        found == NextMarkup(rawdata, i, p)
        j == IF found = 0 THEN n + 1 ELSE found
        text == SubSeq(rawdata, i, j - 1)
        q == IF i < j
             THEN handle_data(p, IF p.cdata_elem = NoTag THEN unescape(text) ELSE text)
             ELSE p
        gt == Find(rawdata, {">"}, j + 1)
    IN IF i > n THEN p
       ELSE IF found = 0 /\ HeldBack(rawdata, i, p) THEN p
       ELSE IF j > n THEN q
       ELSE IF j + 1 <= n /\ rawdata[j + 1] \in AsciiLetters
            THEN IF gt = 0 THEN q
                 ELSE goahead(rawdata, gt + 1, parse_starttag(rawdata, j, gt, q))
       ELSE IF j + 1 <= n /\ rawdata[j + 1] = "/"
            THEN IF gt = 0 THEN q
                 ELSE goahead(rawdata, gt + 1, parse_endtag(rawdata, j, gt, q))
       ELSE IF j + 1 <= n /\ rawdata[j + 1] \in {"!", "?"}
            THEN LET k == parse_declaration(rawdata, j)
                 IN IF k = Raises THEN [q EXCEPT !.raised = TRUE]
                    ELSE IF k = Incomplete THEN q
                    ELSE goahead(rawdata, k, q)
       ELSE IF j + 1 <= n THEN goahead(rawdata, j + 1, handle_data(q, <<"<">>))
       ELSE q

\* 57-60: feed, and no close
clean_html_to_text(html_content) == get_text(goahead(html_content, 1, NewParser))

\* 59: feed raises, and clean_html_to_text with it
feed_raises(html_content) == goahead(html_content, 1, NewParser).raised

-----------------------------------------------------------------------------
(* _view-mails.py, reflow_text.  textwrap.wrap is modelled for lines of     *)
(* words and spaces: no tab and no hyphen, so a chunk is a run of spaces or *)
(* a run of other characters.                                               *)

\* str.splitlines(): the lines between the line breaks, none after the last
RECURSIVE splitlines(_)
splitlines(s) ==
    IF s = <<>> THEN <<>>
    ELSE LET nl == Find(s, {"\n"}, 1)
         IN IF nl = 0 THEN <<s>>
            ELSE <<SubSeq(s, 1, nl - 1)>> \o splitlines(SubSeq(s, nl + 1, Len(s)))

\* chunk.strip() == ''
IsBlank(chunk) == \A i \in DOMAIN chunk : chunk[i] \in Whitespace

\* textwrap, _split_chunks: the words and the runs of white space, in order
RECURSIVE split_chunks(_)
split_chunks(s) ==
    IF s = <<>> THEN <<>>
    ELSE LET stop == IF s[1] \in Whitespace THEN Skip(s, Whitespace, 1)
                     ELSE IF Find(s, Whitespace, 1) = 0 THEN Len(s) + 1
                     ELSE Find(s, Whitespace, 1)
         IN <<SubSeq(s, 1, stop - 1)>> \o split_chunks(SubSeq(s, stop, Len(s)))

\* how many of the first chunks fit in width columns together
Fitting(chunks, width) ==
    LET F[k \in 0..Len(chunks)] == IF k = 0 THEN 0 ELSE F[k - 1] + Len(chunks[k])
    IN CHOOSE k \in 0..Len(chunks) :
           /\ F[k] <= width
           /\ k < Len(chunks) => F[k + 1] > width

\* a wrap with break_long_words off: the long word stays whole
handle_long_word_whole(chunk, space_left) == Len(chunk)

\* textwrap, _handle_long_word with break_long_words: how much of the chunk
\* goes on the current line
handle_long_word(chunk, space_left) == space_left

\* textwrap, _wrap_chunks: the lines made of the chunks, after lines
RECURSIVE wrap_chunks(_, _, _)
wrap_chunks(chunks, width, lines) ==
    IF chunks = <<>> THEN lines
    ELSE LET left == IF IsBlank(chunks[1]) /\ lines # <<>> THEN Tail(chunks) ELSE chunks
             k == Fitting(left, width)
             fit == SubSeq(left, 1, k)
             rest == SubSeq(left, k + 1, Len(left))
             long == rest # <<>> /\ Len(rest[1]) > width
             space_left == IF width < 1 THEN 1 ELSE width - Len(Concat(fit))
             end == IF long THEN handle_long_word(rest[1], space_left) ELSE 0
             cur_line == IF long THEN Append(fit, SubSeq(rest[1], 1, end)) ELSE fit
             after == IF long
                      THEN (IF end < Len(rest[1])
                            THEN <<SubSeq(rest[1], end + 1, Len(rest[1]))>> ELSE <<>>)
                               \o Tail(rest)
                      ELSE rest
             kept == IF cur_line # <<>> /\ IsBlank(cur_line[Len(cur_line)])
                     THEN SubSeq(cur_line, 1, Len(cur_line) - 1) ELSE cur_line
         IN wrap_chunks(after, width,
                        IF kept # <<>> THEN Append(lines, Concat(kept)) ELSE lines)

\* textwrap.wrap(text, width = width, break_long_words = True)
wrap(s, width) == wrap_chunks(split_chunks(s), width, <<>>)

\* 154-162: every raw line stripped; a blank one is one empty line, another
\* is wrapped
RECURSIVE WrapLines(_, _)
WrapLines(raw_lines, width) ==
    IF raw_lines = <<>> THEN <<>>
    ELSE LET clean_line == strip(Head(raw_lines))
         IN (IF clean_line = <<>> THEN << <<>> >> ELSE wrap(clean_line, width))
                \o WrapLines(Tail(raw_lines), width)

\* 170-171: the leading empty lines go
RECURSIVE DropLeadingEmpty(_)
DropLeadingEmpty(lines) ==
    IF lines # <<>> /\ Head(lines) = <<>> THEN DropLeadingEmpty(Tail(lines)) ELSE lines

\* a squeeze that lets two empty lines through
KeepsEmptyTwice(empty_count) == empty_count <= 2

\* 176: is the empty_count-th empty line of a run kept
KeepsEmpty(empty_count) == empty_count <= 1

\* 173-180: the vertical squeeze, empty_count empty lines seen in a row
RECURSIVE Squeeze(_, _)
Squeeze(lines, empty_count) ==
    IF lines = <<>> THEN <<>>
    ELSE IF Head(lines) = <<>>
    THEN (IF KeepsEmpty(empty_count + 1) THEN << <<>> >> ELSE <<>>)
             \o Squeeze(Tail(lines), empty_count + 1)
    ELSE <<Head(lines)>> \o Squeeze(Tail(lines), 0)

\* 145-182
reflow_text(s, width) == Squeeze(DropLeadingEmpty(WrapLines(splitlines(s), width)), 0)

-----------------------------------------------------------------------------
(* _view-mails.py, content fetching.  A part is the dict notmuch show gives: *)
(* ctype, filename and disposition are its "content-type", "filename" and   *)
(* "content-disposition"; content is a str (kind "str"), the list of the    *)
(* child parts (kind "list") or absent (kind "none").  raw is what the mail *)
(* store holds for the part: notmuch show --format=raw --part=id answers it *)
(* when the call succeeds.  notmuch numbers the parts in document order.    *)

MaxParts == 3        \* parts of a message

NoId == 0            \* part.get("id") is None
NoFilename == ""     \* no "filename", or an empty one
NoDisposition == "none"

StrContent(text) == [kind |-> "str", text |-> text, children |-> <<>>]
ListContent(children) == [kind |-> "list", text |-> <<>>, children |-> children]
NoContent == [kind |-> "none", text |-> <<>>, children |-> <<>>]

TextPlain == <<"t", "e", "x", "t", "/", "p", "l", "a", "i", "n">>
TextHtml == <<"t", "e", "x", "t", "/", "h", "t", "m", "l">>

\* the leaves a message is made of
PlainX ==
    [id |-> NoId, ctype |-> TextPlain, filename |-> NoFilename,
     disposition |-> NoDisposition, content |-> StrContent(<<"X">>), raw |-> <<"X">>]
HtmlY ==
    [id |-> NoId, ctype |-> TextHtml, filename |-> NoFilename,
     disposition |-> NoDisposition, content |-> StrContent(<<"<", "b", ">", "Y", "<", "/", "b", ">">>), raw |-> <<"<", "b", ">", "Y", "<", "/", "b", ">">>]
LeafParts ==
    { PlainX, HtmlY,
      [id |-> NoId, ctype |-> <<"t", "e", "x", "t", "/", "p", "l", "a", "i", "n", ";", " ", "c", "h", "a", "r", "s", "e", "t", "=", "u", "t", "f", "-", "8">>, filename |-> NoFilename,
       disposition |-> "inline", content |-> NoContent, raw |-> <<"Z">>],
      [id |-> NoId, ctype |-> <<"T", "e", "x", "t", "/", "H", "T", "M", "L", ";", " ", "c", "h", "a", "r", "s", "e", "t", "=", "U", "T", "F", "-", "8">>, filename |-> NoFilename,
       disposition |-> NoDisposition, content |-> NoContent, raw |-> <<"<", "p", ">", "W", " ", "&", "a", "m", "p", ";", " ", "w", "<", "/", "p", ">">>],
      [id |-> NoId, ctype |-> <<"a", "p", "p", "l", "i", "c", "a", "t", "i", "o", "n", "/", "p", "d", "f">>, filename |-> "a.pdf",
       disposition |-> "attachment", content |-> NoContent, raw |-> <<"%", "P", "D", "F">>],
      [id |-> NoId, ctype |-> TextHtml, filename |-> "n.html",
       disposition |-> "attachment", content |-> StrContent(<<"<", "p", ">", "V", "<", "/", "p", ">">>), raw |-> <<"<", "p", ">", "V", "<", "/", "p", ">">>],
      [id |-> NoId, ctype |-> TextPlain, filename |-> "t.txt",
       disposition |-> "inline", content |-> StrContent(<<"T">>), raw |-> <<"T">>],
      [id |-> NoId, ctype |-> <<"i", "m", "a", "g", "e", "/", "p", "n", "g">>, filename |-> "i.png",
       disposition |-> NoDisposition, content |-> NoContent, raw |-> <<"P", "N", "G">>] }

\* the containers: a multipart, a message attached to the message, and a
\* message forwarded inline
Mixed(children) ==
    [id |-> NoId, ctype |-> <<"m", "u", "l", "t", "i", "p", "a", "r", "t", "/", "m", "i", "x", "e", "d">>, filename |-> NoFilename,
     disposition |-> NoDisposition, content |-> ListContent(children), raw |-> <<"-", "-">>]
Containers(children) ==
    { Mixed(children),
      [id |-> NoId, ctype |-> <<"m", "e", "s", "s", "a", "g", "e", "/", "r", "f", "c", "8", "2", "2">>, filename |-> "m.eml",
       disposition |-> "attachment", content |-> ListContent(children), raw |-> <<"-", "-">>],
      [id |-> NoId, ctype |-> <<"m", "e", "s", "s", "a", "g", "e", "/", "r", "f", "c", "8", "2", "2">>, filename |-> "f.eml",
       disposition |-> "inline", content |-> ListContent(children), raw |-> <<"-", "-">>] }

RECURSIVE Size(_), SizeAll(_)
Size(part) == 1 + SizeAll(part.content.children)
SizeAll(parts) == IF parts = <<>> THEN 0 ELSE Size(Head(parts)) + SizeAll(Tail(parts))

\* the trees and the lists of trees of at most n parts
RECURSIVE Trees(_), Forests(_)
Trees(n) ==
    IF n = 0 THEN {}
    ELSE LeafParts \cup UNION {Containers(children) : children \in Forests(n - 1)}
Forests(n) ==
    {<<>>} \cup UNION {{<<t>> \o f : f \in Forests(n - Size(t))} : t \in Trees(n)}

\* the ids notmuch gives: document order, from first on
RECURSIVE Numbered(_, _), NumberedAll(_, _)
Numbered(part, first) ==
    [part EXCEPT !.id = first,
                 !.content.children = NumberedAll(@, first + 1)]
NumberedAll(parts, first) ==
    IF parts = <<>> THEN <<>>
    ELSE <<Numbered(Head(parts), first)>>
             \o NumberedAll(Tail(parts), first + Size(Head(parts)))

\* the bodies notmuch show may give: one root part
Bodies == {<<Numbered(t, 1)>> : t \in Trees(MaxParts)}

\* every part of a list of trees, at any depth, in document order
RECURSIVE PartsOf(_)
PartsOf(parts) ==
    IF parts = <<>> THEN <<>>
    ELSE <<Head(parts)>> \o PartsOf(Head(parts).content.children) \o PartsOf(Tail(parts))

IdsOf(parts) == {PartsOf(parts)[i].id : i \in DOMAIN PartsOf(parts)}

\* the parts whose payload is not in the dict
Fetchable(parts) ==
    {PartsOf(parts)[i].id : i \in {k \in DOMAIN PartsOf(parts) : PartsOf(parts)[k].content.kind # "str"}}

\* 86-101: the payload of a part, and whether notmuch was asked for it
get_part_content(part, ok) ==
    IF part.content.kind = "str" THEN [text |-> part.content.text, asked |-> FALSE]
    ELSE IF part.id # NoId
         THEN [text |-> IF part.id \in ok THEN part.raw ELSE <<>>, asked |-> TRUE]
    ELSE [text |-> <<>>, asked |-> FALSE]

\* 109-110: raw_ctype and media_type
LowerCtype(part) == lower(part.ctype)
MediaType(part) ==
    LET raw_ctype == LowerCtype(part)
        semi == Find(raw_ctype, {";"}, 1)
    IN strip(SubSeq(raw_ctype, 1, (IF semi = 0 THEN Len(raw_ctype) + 1 ELSE semi) - 1))

\* a walk that stops at every named part
SkipsEveryNamed(part) == part.filename # NoFilename

\* 114-117: a named part whose disposition is "attachment" ends the walk of
\* its subtree
SkipsSubtree(part) == part.filename # NoFilename /\ part.disposition = "attachment"

\* 104-106, with the ids notmuch was asked for and the ids of the parts whose
\* content was walked
NoneCollected ==
    [plain_content |-> <<>>, html_content |-> <<>>, attachments |-> <<>>,
     asked |-> <<>>, walked |-> <<>>]

\* 108-130
RECURSIVE walk(_, _, _), walkAll(_, _, _)
walk(part, ok, acc) ==
    LET media_type == MediaType(part)
        named == IF part.filename # NoFilename
                 THEN [acc EXCEPT !.attachments =
                          Append(@, [id |-> part.id, filename |-> part.filename,
                                     content_type |-> LowerCtype(part)])]
                 ELSE acc
        payload == get_part_content(part, ok)
        got == [named EXCEPT
                   !.asked = (IF payload.asked THEN Append(@, part.id) ELSE @),
                   !.walked = Append(@, part.id),
                   !.plain_content = (IF media_type = TextPlain
                                      THEN Append(@, payload.text) ELSE @),
                   !.html_content = (IF media_type = TextHtml
                                     THEN Append(@, payload.text) ELSE @)]
    IN IF SkipsSubtree(part) THEN named
       ELSE IF part.content.kind = "list" THEN walkAll(part.content.children, ok, got)
       ELSE got
walkAll(parts, ok, acc) ==
    IF parts = <<>> THEN acc
    ELSE walkAll(Tail(parts), ok, walk(Head(parts), ok, acc))

NoReadableText == <<"[No readable text content found]">>

\* a selection that takes the plain text first
SelectBodyPlainFirst(plain_content, html_content) ==
    IF plain_content # <<>> THEN Join(plain_content, <<"\n">>)
    ELSE IF html_content # <<>> THEN clean_html_to_text(Join(html_content, <<"\n">>))
    ELSE NoReadableText

\* 137-143
SelectBody(plain_content, html_content) ==
    IF html_content # <<>> THEN clean_html_to_text(Join(html_content, <<"\n">>))
    ELSE IF plain_content # <<>> THEN Join(plain_content, <<"\n">>)
    ELSE NoReadableText

\* 103-143
collect_body_and_attachments(parts, ok) ==
    LET acc == walkAll(parts, ok, NoneCollected)
    IN [body |-> SelectBody(acc.plain_content, acc.html_content),
        attachments |-> acc.attachments,
        asked |-> acc.asked, walked |-> acc.walked]

-----------------------------------------------------------------------------

NoResults == ListOf(<<>>)

InitListIdle ==
    /\ query = "inbox"
    /\ results = NoResults
    /\ selected_idx = 0
    /\ scroll_offset = 0
    /\ current_limit = 0
    /\ fully_loaded = FALSE
    /\ fetchedHere = FALSE

InitPagerIdle ==
    /\ top = 0
    /\ total_lines = 0
    /\ attachments = <<>>
    /\ saved = <<>>

InitExtractIdle ==
    /\ msg = <<>>
    /\ fetchOk = {}
    /\ extracted = <<>>

InitReduceIdle ==
    /\ full_html = <<>>
    /\ reduced = <<>>

InitReflowIdle ==
    /\ raw_body = <<>>
    /\ wrap_width = 0
    /\ body_lines = <<>>

InitParserIdle ==
    /\ parser = NewParser
    /\ tokens = <<>>

InitTextIdle == InitReduceIdle /\ InitReflowIdle /\ InitParserIdle

\* no list, no pager, no terminal: a function of _view-mails.py is called
InitCall ==
    /\ pc = "init"
    /\ termY = MinY
    /\ max_y = 0
    /\ io = <<>>
    /\ idxN = 0
    /\ idxFuture = 0
    /\ argv = <<"id">>
    /\ exit_code = NotExited
    /\ InitListIdle /\ InitPagerIdle

\* _find-mails.py or gm-find.py is started
InitList ==
    /\ prog \in {"find", "gm"}
    /\ pc = "init"
    /\ termY \in Heights
    /\ max_y = 0
    /\ io = <<>>
    /\ idxN \in IndexSizes
    /\ idxFuture \in 0..MaxFuture
    /\ InitListIdle /\ InitPagerIdle /\ InitExtractIdle /\ InitTextIdle
    /\ argv = IF prog = "gm" THEN <<query>> ELSE <<>>
    /\ exit_code = NotExited

\* _view-mails.py is started on a message
InitView ==
    /\ prog = "view"
    /\ pc = "main"
    /\ argv \in {<<>>, <<"id">>}
    /\ exit_code = NotExited
    /\ termY \in Heights
    /\ max_y = 0
    /\ io = <<>>
    /\ idxN = 0
    /\ idxFuture = 0
    /\ total_lines \in HeaderLines..(HeaderLines + MaxBody)
    /\ \E k \in 0..MaxAtt : attachments = [i \in 1..k |-> i]
    /\ top = 0
    /\ saved = <<>>
    /\ InitListIdle /\ InitExtractIdle /\ InitTextIdle

\* the general environment: the terminal is resized, the index changes,
\* notmuch and the file system fail; no thread is future-dated
Init == (InitList /\ idxFuture = 0) \/ InitView

Next ==
    \/ \E y \in Heights, a \in Answers : FindStart(y, a)
    \/ FindAck
    \/ \E y \in Heights : FindLoopTop(y)
    \/ \E y \in Heights, a \in Answers : FindLoopFetch(y, a)
    \/ FindQuit
    \/ \E key \in NavKeys \cup {"other"} : FindNav(key)
    \/ FindSearchNone
    \/ \E q \in Queries, a \in Answers : FindSearch(q, a)
    \/ FindOpen
    \/ FindViewerReturn
    \/ \E a \in Answers : GmStart(a)
    \/ GmAck
    \/ \E y \in Heights : GmLoopTop(y)
    \/ GmQuit
    \/ \E key \in NavKeys \cup {"other"} : GmNav(key)
    \/ GmOpen
    \/ GmViewerReturn
    \/ \E shown \in Shown : ViewMain(shown)
    \/ ViewStart
    \/ \E y \in Heights : ViewLoopTop(y)
    \/ ViewQuit
    \/ \E oks \in [1..Len(attachments) -> BOOLEAN] : ViewSave(oks)
    \/ \E ch \in PagerKeys \cup {"other"} : ViewScroll(ch)

Spec == Init /\ [][Next]_vars

\* the unchanging environment: the terminal keeps its height, the index its
\* threads (future-dated ones included), and nothing fails
InitStable == InitList \/ InitView

NextStable ==
    \/ FindStart(termY, Answer(idxN))
    \/ FindLoopTop(termY)
    \/ FindLoopFetch(termY, Answer(idxN))
    \/ FindQuit
    \/ \E key \in NavKeys \cup {"other"} : FindNav(key)
    \/ FindSearchNone
    \/ \E q \in Queries : FindSearch(q, Answer(idxN))
    \/ FindOpen
    \/ FindViewerReturn
    \/ GmStart(Answer(idxN))
    \/ GmAck
    \/ GmLoopTop(termY)
    \/ GmQuit
    \/ \E key \in NavKeys \cup {"other"} : GmNav(key)
    \/ GmOpen
    \/ GmViewerReturn
    \/ ViewMain("message")
    \/ ViewStart
    \/ ViewLoopTop(termY)
    \/ ViewQuit
    \/ ViewSave([i \in 1..Len(attachments) |-> TRUE])
    \/ \E ch \in PagerKeys \cup {"other"} : ViewScroll(ch)

SpecStable == InitStable /\ [][NextStable]_vars

\* the user who scrolls to the end of _find-mails.py: the index does not
\* change and holds at least one thread, fewer than the largest limit of the
\* model, every query succeeds, and the only keys are Down and End.  The loop
\* blocks in getch alone, and this user always presses the next key.
ScrollKeys == {"DOWN", "END"}

InitScroll ==
    /\ InitList
    /\ prog = "find"
    /\ idxN > 0 /\ idxN < MaxLimit

NextScroll ==
    \/ \E y \in Heights : FindStart(y, Answer(idxN))
    \/ \E y \in Heights : FindLoopTop(y)
    \/ \E y \in Heights : FindLoopFetch(y, Answer(idxN))
    \/ \E key \in ScrollKeys : FindNav(key)

SpecScroll == InitScroll /\ [][NextScroll]_vars /\ WF_vars(NextScroll)

\* _view-mails.py has the body of a message: any tree of the bounded parts,
\* any outcome of the part fetches
InitExtract ==
    /\ prog = "extract"
    /\ InitCall /\ InitTextIdle
    /\ msg \in Bodies
    /\ fetchOk \in SUBSET Fetchable(msg)
    /\ extracted = <<>>

\* render_message 196: body_text, attachments = collect_body_and_attachments(...)
Extract ==
    /\ prog = "extract" /\ pc = "init"
    /\ extracted' = collect_body_and_attachments(msg, fetchOk)
    /\ pc' = "done"
    /\ UNCHANGED <<prog, argv, exit_code, textVars, termY, max_y, io, listVars, envVars, pagerVars, msg, fetchOk>>

NextExtract == Extract

SpecExtract == InitExtract /\ [][NextExtract]_vars

\* the markups clean_html_to_text is given: at most MaxMarkup pieces of
\* markup, whole or broken
MaxMarkup == 3

MarkupPieces ==
    { <<"<", "p", ">">>, <<"<", "/", "p", ">">>, <<"<", "b">>, <<"<", "s", "t", "y", "l", "e", ">">>,
      <<"<">>, <<">">>, <<"/">>, <<"A">>, <<" ">>,
      <<"&", "l", "t", ";">>, <<"&", "g", "t">>, <<"&">>, <<";">>,
      <<"<", "!", "[">>, <<"i", "f">>, <<"]">> }

RECURSIVE Markups(_)
Markups(n) ==
    IF n = 0 THEN {<<>>}
    ELSE Markups(n - 1) \cup {m \o piece : m \in Markups(n - 1), piece \in MarkupPieces}

InitReduce ==
    /\ prog = "reduce"
    /\ InitCall /\ InitExtractIdle /\ InitReflowIdle /\ InitParserIdle
    /\ full_html \in Markups(MaxMarkup)
    /\ reduced = <<>>

\* collect_body_and_attachments 139: clean_html_to_text(full_html) returns
\* the text, or the exception of feed leaves it
Reduce ==
    /\ prog = "reduce" /\ pc = "init"
    /\ reduced' = [raised |-> feed_raises(full_html),
                   text |-> IF feed_raises(full_html) THEN <<>>
                            ELSE clean_html_to_text(full_html)]
    /\ pc' = "done"
    /\ UNCHANGED <<prog, argv, exit_code, termY, max_y, io, listVars, envVars, pagerVars,
                   extractVars, full_html, reflowVars, parserVars>>

NextReduce == Reduce

SpecReduce == InitReduce /\ [][NextReduce]_vars

\* the texts reflow_text is given: words, spaces and line breaks, and the
\* widths of a terminal of five columns or more
MaxText == 6
MaxWidth == 3

RECURSIVE Texts(_)
Texts(n) ==
    IF n = 0 THEN {<<>>}
    ELSE Texts(n - 1) \cup {Append(t, c) : t \in Texts(n - 1), c \in {"a", " ", "\n"}}

InitReflow ==
    /\ prog = "reflow"
    /\ InitCall /\ InitExtractIdle /\ InitReduceIdle /\ InitParserIdle
    /\ raw_body \in Texts(MaxText)
    /\ wrap_width \in 1..MaxWidth
    /\ body_lines = <<>>

\* render_message 201: body_lines = reflow_text(raw_body, wrap_width)
Reflow ==
    /\ prog = "reflow" /\ pc = "init"
    /\ body_lines' = reflow_text(raw_body, wrap_width)
    /\ pc' = "done"
    /\ UNCHANGED <<prog, argv, exit_code, termY, max_y, io, listVars, envVars, pagerVars,
                   extractVars, reduceVars, raw_body, wrap_width, parserVars>>

NextReflow == Reflow

SpecReflow == InitReflow /\ [][NextReflow]_vars

------------------------------------------------------------------------------
(* The handlers of LayoutHTMLParser under every sequence of tokens: a start
   tag, an end tag or a text run is handed to the parser, one token a step. *)

MaxTokens == 3     \* tokens handed to one parser

\* an ignored element with content, an ignored void tag, a tag the parser
\* knows nothing of, and a block tag
TokenTags == {<<"s", "t", "y", "l", "e">>, <<"m", "e", "t", "a">>, <<"b">>, <<"p">>}

\* a visible text run and one of white space only
TokenData == {<<"A">>, <<" ">>}

InitParser ==
    /\ prog = "parser"
    /\ InitCall /\ InitExtractIdle /\ InitReduceIdle /\ InitReflowIdle
    /\ parser = NewParser
    /\ tokens = <<>>

\* what a token step leaves alone
TokenFrame ==
    UNCHANGED <<prog, pc, argv, exit_code, termY, max_y, io, listVars, envVars, pagerVars,
                extractVars, reduceVars, reflowVars>>

StartTag(tag) ==
    /\ prog = "parser" /\ Len(tokens) < MaxTokens
    /\ parser' = handle_starttag(parser, tag)
    /\ tokens' = Append(tokens, [kind |-> "start", val |-> tag])
    /\ TokenFrame

EndTag(tag) ==
    /\ prog = "parser" /\ Len(tokens) < MaxTokens
    /\ parser' = handle_endtag(parser, tag)
    /\ tokens' = Append(tokens, [kind |-> "end", val |-> tag])
    /\ TokenFrame

Data(data) ==
    /\ prog = "parser" /\ Len(tokens) < MaxTokens
    /\ parser' = handle_data(parser, data)
    /\ tokens' = Append(tokens, [kind |-> "data", val |-> data])
    /\ TokenFrame

NextParser ==
    \/ \E tag \in TokenTags : StartTag(tag)
    \/ \E tag \in TokenTags : EndTag(tag)
    \/ \E data \in TokenData : Data(data)

SpecParser == InitParser /\ [][NextParser]_vars

-----------------------------------------------------------------------------
(* Properties of the result lists and of the pager *)

IsList == prog \in {"find", "gm"}

\* the rows a list paints: list_height of the running script
PageHeight == max_y - (IF prog = "gm" THEN GmChrome ELSE ListChrome)

\* a frame of the list is on screen and the program waits (for a key, or for
\* the viewer it started)
ListShown == IsList /\ pc \in {"key", "viewing"}

HasRows == ~results.isStr /\ Total(results) > 0

SelectionVisible(height) ==
    scroll_offset <= selected_idx /\ selected_idx <= scroll_offset + height - 1

\* C1: with the rows and the terminal height fixed (at least one list row),
\* whatever keys were pressed, the selected row is inside the window that is
\* on screen: scrollTop <= selected <= scrollTop + pageHeight - 1.
C1_SelectionVisible ==
    (ListShown /\ HasRows /\ PageHeight >= 1) => SelectionVisible(PageHeight)

\* C1 witness: the list was scrolled down and the selection is below its top row
C1_Witness ==
    /\ ListShown /\ HasRows /\ PageHeight >= 2
    /\ scroll_offset > 0 /\ selected_idx = scroll_offset + PageHeight - 1

\* C2: whenever rows is non-empty and a frame is on screen, 0 <= selected <
\* len(rows), so Enter opens an existing row.
C2_SelectedInRows ==
    (ListShown /\ HasRows) => (0 <= selected_idx /\ selected_idx < Total(results))

\* M of the pager for the height the terminal keeps
PagerM == IF total_lines - (termY - PagerChrome) > 0
          THEN total_lines - (termY - PagerChrome) ELSE 0

\* top is within the range of the pager
C3_TopInRange == (prog = "view" /\ pc \in {"top", "key"}) => (0 <= top /\ top <= PagerM)

\* End goes to M, Down at M stays
C3_EndAndDown ==
    /\ ViewScroll("END") => top' = PagerM
    /\ (ViewScroll("DOWN") /\ top = PagerM) => top' = top

\* C3: with the lines and the terminal height fixed, 0 <= top <= M with
\* M = max(0, len(lines) - pageHeight); End sets top to M; Down at M is a no-op.
C3_Pager == [](C3_TopInRange) /\ [][C3_EndAndDown]_vars

\* C3 witness: the pager is at the last page of a message longer than a page
C3_Witness == prog = "view" /\ pc = "key" /\ top = PagerM /\ top > 1

\* C4: every frame is painted in a state that obeys the invariant of the
\* controller for the height the terminal has at that repaint.
C4_FrameObeysHeight ==
    /\ (IsList /\ pc = "key" /\ HasRows /\ PageHeight >= 1) => SelectionVisible(PageHeight)
    /\ (prog = "view" /\ pc = "key") => top <= Max(0, total_lines - (max_y - PagerChrome))

\* a step that keeps an empty result set
C5_EmptyStep ==
    (IsList /\ pc = "key" /\ ~results.isStr /\ Total(results) = 0 /\ results' = results)
        => /\ selected_idx' = selected_idx /\ scroll_offset' = scroll_offset
           /\ selected_idx' >= 0
           /\ pc' # "viewing"

\* C5: on an empty result set a key that does not query leaves selected = 0 and
\* scrollTop = 0 as they are, opens nothing, and selected is never negative.
C5_EmptyDisablesKeys == [][C5_EmptyStep]_vars

\* a step of the loop that issues a re-query
FetchStep == prog = "find" /\ pc = "top" /\ current_limit' # current_limit

\* the selection is at the threshold only after a fetch
C6_FetchedBeforePast ==
    (prog = "find" /\ pc = "key" /\ ~results.isStr /\ ~fully_loaded
        /\ selected_idx >= Total(results) - 5) => fetchedHere

\* C6 as stated: while fullyLoaded is false the selection is not at or past
\* len(rows) - 5 at a key read unless a fetch was issued since it last advanced,
\* and no second fetch is issued before it advances again.
C6_OneFetchPerAdvance ==
    [](C6_FetchedBeforePast) /\ [][FetchStep => ~fetchedHere]_vars

\* the notmuch calls among the events of a step
Queries_in(events) == Cardinality({i \in 1..Len(events) : events[i] = "query"})

\* one pass of the loop, from its top to the key read
C6_PassStep ==
    (prog = "find" /\ pc = "top" /\ pc' = "key") =>
        IF ~fully_loaded /\ selected_idx >= Total(results) - 5
        THEN /\ Queries_in(io') = 1 /\ io'[1] = "fetching"
             /\ current_limit' = current_limit + max_y'
        ELSE /\ Queries_in(io') = 0
             /\ current_limit' = current_limit /\ results' = results

\* C6 amended: a pass of the loop from its top to the key read issues exactly
\* one re-query, with the limit grown by the terminal height, when it starts
\* with fullyLoaded false and selected >= len(rows) - 5, and none otherwise.
C6_OneFetchPerPass == [][C6_PassStep]_vars

\* C6 witness: a fetch was issued, the list is still not fully loaded and the
\* selection is still within five rows of its end: the next pass fetches again
C6_Witness ==
    /\ prog = "find" /\ pc = "key" /\ Queries_in(io) = 1 /\ fetchedHere
    /\ ~fully_loaded /\ selected_idx >= Total(results) - 5

\* a notmuch call among the events failed
Failed(events) == \E i \in 1..Len(events) : events[i] = "failed"

\* C7: a failed query is surfaced as one error message the user acknowledges,
\* and the loop never runs with rows holding anything but a list of rows.
C7_FailureSurfaced ==
    prog = "find" =>
        /\ Running => ~results.isStr
        /\ Failed(io) => pc = "errwait"

\* the step of "/" and a text: the first event is the loading screen
NewQueryStep == prog = "find" /\ pc = "key" /\ Len(io') > 0 /\ io'[1] = "loading"

\* the list right after a new query took effect
AfterNewQuery ==
    /\ ~results'.isStr
    /\ \A i \in 1..Total(results') : results'.rows[i][1] = query'
    /\ selected_idx' = 0 /\ scroll_offset' = 0
    /\ current_limit' = max_y + 10
    /\ fully_loaded' = (Total(results') < current_limit')

\* C8: after "/" with a text, rows is the result of the new query, selected = 0,
\* scrollTop = 0, loadLimit is the default window and fullyLoaded is
\* len(rows) < loadLimit.
C8_NewQueryResets == [][NewQueryStep => AfterNewQuery]_vars

\* C8, when the new query succeeds: the reset the claim states does happen
C8_ResetsOnSuccess == [][(NewQueryStep /\ ~Failed(io')) => AfterNewQuery]_vars

-----------------------------------------------------------------------------
(* Properties of the message extractor *)

Extracted == prog = "extract" /\ pc = "done"

\* a part with a file name whose disposition is exactly "attachment"
IsNamedAttachment(part) == part.filename # "" /\ part.disposition = "attachment"

\* every part of the message in document order, each with whether it lies
\* below a named attachment
RECURSIVE Placed(_, _)
Placed(parts, below) ==
    IF parts = <<>> THEN <<>>
    ELSE <<[part |-> Head(parts), below |-> below]>>
             \o Placed(Head(parts).content.children, below \/ IsNamedAttachment(Head(parts)))
             \o Placed(Tail(parts), below)

\* the parts whose content the extractor visits, in document order
Visited ==
    SelectSeq(Placed(msg, FALSE), LAMBDA e : ~e.below /\ ~IsNamedAttachment(e.part))

\* the payload of a part: its inline content, else what fetching it gives,
\* nothing when the fetch fails
PayloadOf(part) ==
    IF part.content.kind = "str" THEN part.content.text
    ELSE IF part.id \in fetchOk THEN part.raw
    ELSE <<>>

PayloadsOfType(media) ==
    LET of == SelectSeq(Visited, LAMBDA e : MediaType(e.part) = media)
    IN [i \in 1..Len(of) |-> PayloadOf(of[i].part)]

CharsOf(text) == {text[i] : i \in 1..Len(text)}

\* the message of the example: text/plain "X" and text/html "<b>Y</b>"
PlainThenHtml == <<Numbered(Mixed(<<PlainX, HtmlY>>), 1)>>
HtmlThenPlain == <<Numbered(Mixed(<<HtmlY, PlainX>>), 1)>>

\* C9: when a visited text/html part has a non-empty payload, the body is
\* reduce(join(HTML payloads in document order, newline)) and holds nothing of
\* the text/plain payloads; for "X" and "<b>Y</b>", in either order, it is "Y".
C9_HtmlPreferred ==
    Extracted =>
        LET htmls == PayloadsOfType(TextHtml)
            plains == PayloadsOfType(TextPlain)
        IN /\ (\E i \in 1..Len(htmls) : htmls[i] # <<>>) =>
                  /\ extracted.body = clean_html_to_text(Join(htmls, <<"\n">>))
                  /\ \A i \in 1..Len(plains) : CharsOf(plains[i]) \cap CharsOf(extracted.body) = {}
           /\ msg \in {PlainThenHtml, HtmlThenPlain} => extracted.body = <<"Y">>

\* C9 witness: a message with a non-empty plain payload before a non-empty HTML
\* payload was extracted and text came out
C9_Witness ==
    /\ Extracted
    /\ \E i \in 1..Len(PayloadsOfType(TextPlain)) : PayloadsOfType(TextPlain)[i] # <<>>
    /\ \E i \in 1..Len(PayloadsOfType(TextHtml)) : PayloadsOfType(TextHtml)[i] # <<>>
    /\ MediaType(Visited[2].part) = TextPlain
    /\ extracted.body # <<>>

EntriesFor(part) ==
    {i \in 1..Len(extracted.attachments) :
        /\ extracted.attachments[i].id = part.id
        /\ extracted.attachments[i].filename = part.filename}

InLog(log, id) == \E i \in 1..Len(log) : log[i] = id

\* no payload of the part or of a part below it was fetched or accumulated
SubtreeUntouched(part) ==
    \A d \in IdsOf(<<part>>) : ~InLog(extracted.asked, d) /\ ~InLog(extracted.walked, d)

\* the part went through the content walk: its payload was obtained (fetched
\* when it is not inline) and its children were walked
ContentWalked(part) ==
    /\ InLog(extracted.walked, part.id)
    /\ part.content.kind # "str" => InLog(extracted.asked, part.id)
    /\ \A i \in 1..Len(part.content.children) :
           IF IsNamedAttachment(part.content.children[i])
           THEN Cardinality(EntriesFor(part.content.children[i])) = 1
           ELSE InLog(extracted.walked, part.content.children[i].id)

AttachmentRule(part) ==
    /\ IsNamedAttachment(part) =>
           Cardinality(EntriesFor(part)) = 1 /\ SubtreeUntouched(part)
    /\ (part.filename # "" /\ part.disposition # "attachment") =>
           Cardinality(EntriesFor(part)) = 1 /\ ContentWalked(part)

\* C10 as stated: every part with a file name, wherever it is in the tree,
\* follows the attachment rule.
C10_EveryNamedPart ==
    Extracted => \A i \in 1..Len(PartsOf(msg)) : AttachmentRule(PartsOf(msg)[i])

\* C10 amended: every part with a file name that does not lie below a named
\* attachment follows the attachment rule; a part below a named attachment is
\* not recorded, fetched or accumulated, whatever its file name.
C10_AttachmentRule ==
    Extracted =>
        \A i \in 1..Len(Placed(msg, FALSE)) :
            LET e == Placed(msg, FALSE)[i]
            IN IF e.below
               THEN EntriesFor(e.part) = {} /\ SubtreeUntouched(e.part)
               ELSE AttachmentRule(e.part)

\* C10 witness: an attached message with a text part in it was extracted next
\* to nothing else: one entry, and nothing fetched below it
C10_Witness ==
    /\ Extracted
    /\ \E i \in 1..Len(Placed(msg, FALSE)) :
           LET e == Placed(msg, FALSE)[i]
           IN /\ ~e.below /\ IsNamedAttachment(e.part)
              /\ e.part.content.children # <<>>
              /\ Len(extracted.attachments) = 1

\* some payload of the list is not empty
SomeContent(payloads) == \E i \in 1..Len(payloads) : payloads[i] # <<>>

\* C17: a part whose fetch fails counts as empty and the walk goes on; the
\* body is the reduced HTML only when some HTML content was collected, else
\* the plain payloads joined by newlines when some plain content exists, else
\* the placeholder.  So the plain text shows when the only HTML part could
\* not be fetched, and the placeholder when no text could be had
C17_BodyUnderFetchFailure ==
    Extracted =>
        LET htmls == PayloadsOfType(TextHtml)
            plains == PayloadsOfType(TextPlain)
        IN extracted.body =
               IF SomeContent(htmls) THEN clean_html_to_text(Join(htmls, <<"\n">>))
               ELSE IF SomeContent(plains) THEN Join(plains, <<"\n">>)
               ELSE NoReadableText

-----------------------------------------------------------------------------
(* Properties of the markup reducer *)

Reduced == prog = "reduce" /\ pc = "done"

\* C11: whatever the markup (malformed, with a bare "<", with references to
\* "<" and ">"), clean_html_to_text returns, and the text it returns holds
\* neither "<" nor ">"
C11_NoDelimiters ==
    Reduced =>
        /\ ~reduced.raised
        /\ \A i \in DOMAIN reduced.text : reduced.text[i] \notin {"<", ">"}

-----------------------------------------------------------------------------
(* Properties of the reflow *)

Reflowed == prog = "reflow" /\ pc = "done"

\* C12: for every width of 1 or more and every text, a word longer than the
\* width included, no line reflow_text returns is longer than the width, and
\* none holds a line break
C12_WidthBound ==
    Reflowed =>
        \A i \in DOMAIN body_lines :
            /\ Len(body_lines[i]) <= wrap_width
            /\ \A k \in DOMAIN body_lines[i] : body_lines[i][k] # "\n"

\* a word of three characters reflowed to two columns is broken in two
C12_Witness ==
    /\ Reflowed
    /\ raw_body = <<"a", "a", "a">> /\ wrap_width = 2
    /\ body_lines = << <<"a", "a">>, <<"a">> >>

\* C13: whatever the mixture of blank, white and other raw lines, reflow_text
\* returns no two empty lines in a row and no empty first line, and the
\* empty text gives no line
C13_VerticalSqueeze ==
    Reflowed =>
        /\ body_lines # <<>> => body_lines[1] # <<>>
        /\ \A i \in 1..(Len(body_lines) - 1) :
               ~(body_lines[i] = <<>> /\ body_lines[i + 1] = <<>>)
        /\ raw_body = <<>> => body_lines = <<>>

\* a blank line first, and two blank lines between two words
C13_Witness ==
    /\ Reflowed
    /\ raw_body = <<"\n", "a", "\n", "\n", "\n", "a">>
    /\ body_lines = << <<"a">>, <<>>, <<"a">> >>

-----------------------------------------------------------------------------
(* Properties of the viewer as a process *)

ViewExited == prog = "view" /\ pc = "exited"

\* main printed "Error: ...": the message could not be had
ViewFailed == \E i \in DOMAIN io : io[i] = "Error"

\* C14: _view-mails.py ends with status 1 when its argument is missing and
\* with status 1 when the message cannot be retrieved (notmuch fails, its
\* output does not parse, it holds no message), and with status 0 only
\* after "q" in the pager
C14_ExitStatus ==
    ViewExited =>
        /\ Len(argv) < 1 => exit_code = 1
        /\ ViewFailed => exit_code = 1
        /\ exit_code = 0 => Len(argv) >= 1 /\ ~ViewFailed

-----------------------------------------------------------------------------
(* Properties of the pager under a result list *)

\* the list waits for the viewer it started
InPager == IsList /\ pc = "viewing"

ListState == <<results, selected_idx, scroll_offset, current_limit, fully_loaded>>

\* C15: the pager has two ways out.  One ends the whole session, so that the
\* list reads no other key; the other gives the control back to the loop of
\* the list, with rows, selection, scroll, limit and fully_loaded as they
\* were when the message was opened
C15_PagerExits ==
    /\ [](InPager => ENABLED (Next /\ pc' = "exited"))
    /\ [][InPager /\ pc' # "exited" => pc' = "top" /\ ListState' = ListState]_vars

-----------------------------------------------------------------------------
(* Properties of the save of the attachments *)

\* "s" was handled in this step
SaveStep == prog = "view" /\ pc = "key" /\ io' # <<>> /\ io'[1] \in {"Saved", "No attachments."}

\* C16: "s" attempts every attachment of the manifest once, in the order of
\* the manifest, a failed attempt stops none of the later ones, the summary
\* counts the attempts that succeeded, and top stays
C16_SaveAttachments ==
    [][SaveStep =>
          /\ Len(saved') = Len(attachments)
          /\ \A i \in DOMAIN attachments : saved'[i].id = attachments[i]
          /\ attachments # <<>> => io' = <<"Saved", SavedCount(saved')>>
          /\ top' = top]_vars

\* the first of two attachments failed, the second was saved: "Saved 1 files."
C16_Witness ==
    /\ prog = "view"
    /\ Len(attachments) = 2 /\ Len(saved) = 2
    /\ ~saved[1].ok /\ saved[2].ok
    /\ io = <<"Saved", 1>>

-----------------------------------------------------------------------------
(* Properties of the frames around a re-query *)

\* what a step painted and asked, without the outcome of the call
Events(log) == SelectSeq(log, LAMBDA e : e # "failed")

Shows(log, e) == \E i \in DOMAIN log : log[i] = e

FailedFetchStep == prog = "find" /\ pc = "top" /\ Shows(io', "fetching") /\ Failed(io')

\* C19: a re-query that fails is not retried by the program: it leaves rows,
\* selection, scroll, fully_loaded and the limit as they were before the
\* call, so that the passes that follow do not ask again with a limit that
\* grows each time
C19_NoRetry == [][FailedFetchStep => ListState' = ListState]_vars

------------------------------------------------------------------------------
(* Properties of the ignore tracking of the markup reducer *)

\* meta and link have no content and no end tag
VoidIgnored == {<<"m", "e", "t", "a">>, <<"l", "i", "n", "k">>}

\* the last position of stack that holds tag, 0 if none
LastOpen(stack, tag) ==
    IF \E k \in 1..Len(stack) : stack[k] = tag
    THEN CHOOSE k \in 1..Len(stack) :
             stack[k] = tag /\ \A m \in (k + 1)..Len(stack) : stack[m] # tag
    ELSE 0

\* the elements open after the tokens toks, outermost first: a start tag
\* opens its element unless it is void, an end tag closes the innermost open
\* element of its name with all that is open inside it, and an end tag that
\* matches no open element closes nothing
OpenElements(toks) ==
    LET F[i \in 0..Len(toks)] ==
            IF i = 0 THEN <<>>
            ELSE LET t == toks[i]
                     k == LastOpen(F[i - 1], t.val)
                 IN IF t.kind = "start"
                    THEN IF t.val \in VoidIgnored THEN F[i - 1] ELSE Append(F[i - 1], t.val)
                    ELSE IF t.kind = "end" /\ k > 0 THEN SubSeq(F[i - 1], 1, k - 1)
                    ELSE F[i - 1]
    IN F[Len(toks)]

\* the text that comes next lies inside an ignored element
InsideIgnored(toks) ==
    \E k \in 1..Len(OpenElements(toks)) : OpenElements(toks)[k] \in ignore_tags

\* the tag of the last start tag among toks, NoTag if there is none
LastStartTag(toks) ==
    LET starts == SelectSeq(toks, LAMBDA t : t.kind = "start")
    IN IF starts = <<>> THEN NoTag ELSE starts[Len(starts)].val

\* this step hands a text run with something to see in it to the parser
VisibleTextStep ==
    /\ prog = "parser" /\ Len(tokens') = Len(tokens) + 1
    /\ tokens'[Len(tokens')].kind = "data"
    /\ CollapseWhitespace(StripInvisible(tokens'[Len(tokens')].val)) # <<>>

\* the text run of this step adds nothing to the parts
TextDropped == parser'.parts = parser.parts

\* C20 as stated: over every sequence of start tags, end tags and text runs,
\* a visible text run is dropped only when it lies inside an ignored element
\* (style, script, head, meta, link); text after the end tag of an ignored
\* element or after a void ignored tag, before the next start tag, is emitted,
\* as is the text of unknown or unmatched tags outside any ignored element
C20_DroppedOnlyInsideIgnored ==
    [][(VisibleTextStep /\ TextDropped) => InsideIgnored(tokens)]_vars

\* C20, amended: a visible text run is dropped exactly when the last start
\* tag before it is an ignored one, whatever end tags came since; the text
\* after the end tag of an ignored element or after meta or link is dropped
\* up to the next start tag, and all other text is emitted
C20_DroppedUnderLastStartTag ==
    [][VisibleTextStep => (TextDropped <=> LastStartTag(tokens) \in ignore_tags)]_vars

\* "<style>", "</style>", then "A": the text after the end tag was dropped
C20_Witness ==
    /\ prog = "parser"
    /\ tokens = <<[kind |-> "start", val |-> <<"s", "t", "y", "l", "e">>],
                  [kind |-> "end", val |-> <<"s", "t", "y", "l", "e">>],
                  [kind |-> "data", val |-> <<"A">>]>>
    /\ parser.parts = <<>>

------------------------------------------------------------------------------
(* Properties of fully_loaded and of the rows across a re-query *)

\* the threads the index holds for the query of the list
Matching == {<<query, p>> : p \in 1..idxN}

\* the threads among the rows of the list
Loaded == {results.rows[i] : i \in 1..Total(results)}

\* this step issued a query that succeeded
AnsweredStep == prog = "find" /\ Shows(io', "query") /\ ~Failed(io')

\* C21: with an unchanging index and queries that succeed, whenever
\* fully_loaded is true the rows hold every thread the index has for the
\* query, and the initial query, a new query and each re-query that succeeds
\* leave fully_loaded equal to len(results) < current_limit
C21_FullyLoadedSound ==
    /\ []((prog = "find" /\ fully_loaded) => (~results.isStr /\ Loaded = Matching))
    /\ [][AnsweredStep => (fully_loaded' = (Total(results') < current_limit'))]_vars

\* a re-query found the end of an index larger than the first limit
C21_Witness ==
    /\ prog = "find" /\ pc = "key"
    /\ Shows(io, "fetching")
    /\ fully_loaded
    /\ idxN = MidIndex /\ Total(results) = MidIndex

\* a pass of the loop that re-queries
RequeryStep == prog = "find" /\ pc = "top" /\ Shows(io', "fetching")

\* old is the start of new
IsPrefix(old, new) == Len(old) <= Len(new) /\ SubSeq(new, 1, Len(old)) = old

\* C22: with an unchanging index, a re-query keeps every loaded row at its
\* index (the old rows are a prefix of the new ones), so the selected row is
\* the same thread before and after the fetch, future-dated threads or not
C22_RowsStable ==
    [][RequeryStep =>
          /\ IsPrefix(results.rows, results'.rows)
          /\ results'.rows[selected_idx' + 1] = results.rows[selected_idx + 1]]_vars

------------------------------------------------------------------------------
(* Properties of the scroll to the end *)

\* every thread of the index is loaded and the last one is selected
AtEndOfIndex ==
    /\ prog = "find"
    /\ fully_loaded
    /\ Total(results) = idxN
    /\ selected_idx = idxN - 1

\* C23: with an unchanging index of N > 0 threads, a page of at least one
\* row and queries that succeed, a user who keeps pressing End or Down
\* eventually has fully_loaded true, all N rows loaded and the last one
\* selected; each re-query grows current_limit, and from some point on
\* there is no re-query any more
C23_ScrollLiveness ==
    /\ <>AtEndOfIndex
    /\ [][RequeryStep => current_limit' > current_limit]_vars
    /\ <>[][~RequeryStep]_vars

\* the end of an index larger than the first limit, reached through re-queries
C23_Witness ==
    /\ AtEndOfIndex
    /\ idxN = MidIndex
    /\ current_limit > MaxY + DefaultWindow

====
